---------------------------- MODULE Spec2Model ----------------------------
(***************************************************************************)
(* A model of the textshape line-breaking pipeline:                        *)
(*   TextFragmenter.__call__  (textshape/fragment.py)                      *)
(*   OnlineConcaveMinima / ConcaveMinima / LineNumbers  (wrap.py)          *)
(*   TextColumn.wrap, to_list, modify_text, calc_x, justify                *)
(*   MultiColumn.column_splitting, to_bounding_boxes  (textshape/text.py)  *)
(* Python arrays are 0-based; they are kept as TLA+ sequences and read     *)
(* through At(s, i) == s[i + 1], so every index below is the Python index. *)
(* Widths are in ems; the monospace measure gives every character 1 em, so *)
(* all breaker arithmetic is integer arithmetic.                           *)
(***************************************************************************)
EXTENDS Integers, Sequences, FiniteSets, TLC

\* ------------------------------------------------------------------ bounds
MaxLen == 4          \* longest input text, in characters
MaxTarget == 3       \* largest target width of a schedule, in ems
MaxSched == 3        \* longest target-width schedule
MaxItems == 2        \* most tab-led words of a tabbed text
MaxWord == 2         \* longest word of a tabbed or spaced text
MaxTabTarget == 4    \* largest target width of a tabbed text's schedule
MaxParagraphs == 2   \* most paragraphs of a paragraphed text
MaxBody == 3         \* longest paragraph body, in letters
MaxGapSched == 4     \* longest schedule of a paragraphed text
MaxWords == 4        \* most words of a spaced text
MaxWordSched == 2    \* longest schedule of a spaced text
MaxSpanLen == 3      \* longest text handed to an arbitrary splitter
MaxSpans == 3        \* most spans an arbitrary splitter returns
MaxExtra == 1        \* most elements a measure returns beyond the characters
MaxColumnLines == 2  \* largest max_lines_per_column of a MultiColumn
MaxColumnSched == 2  \* longest max_lines_per_column schedule
MaxColumnWords == 3  \* most words of a text laid out in columns
MaxColumnLen == 8    \* longest text laid out in columns, in characters
MaxColumnsPerPage == 2 \* most columns on a page
MaxColumn == 5       \* last column of a Matrix searched on its own
MaxEntry == 1        \* largest entry of such a Matrix
MaxBeyond == 1       \* columns asked of the search past the last of its Matrix

\* ------------------------------------------------------- program constants
OVERFLOW_PENALTY == 1000
NLINE_PENALTY == 1000
SHORT_LAST_LINE_FRACTION == 10
SHORT_LAST_LINE_PENALTY == 25
HYPHEN_PENALTY == 25
FORCED_WHITESPACE == 100000
DEFAULT_TAB_WIDTH == 4

TAB == "\t"
NL == "\n"
SPACE == " "
LETTER == "a"
HYPHEN == "-"
Alphabet == {LETTER, SPACE, TAB, NL}
TabWidths == {1, DEFAULT_TAB_WIDTH}
Fontsizes == {2}

\* ----------------------------------------------------------------- helpers
At(s, i) == s[i + 1]

Range0(a, b) == [k \in 1..(IF b > a THEN b - a ELSE 0) |-> a + k - 1]

RECURSIVE SumSeq(_)
SumSeq(s) == IF s = <<>> THEN 0 ELSE Head(s) + SumSeq(Tail(s))

\* np.cumsum
CumSum(s) == [k \in 1..Len(s) |-> SumSeq(SubSeq(s, 1, k))]

\* np.pad(s, (1, 0)).cumsum(): the prefix sums, starting with 0
PadCumSum(s) == [k \in 1..(Len(s) + 1) |-> SumSeq(SubSeq(s, 1, k - 1))]

\* a[i] raises IndexError
BadIndex(len, i) == i >= len \/ i < -len

Max(a, b) == IF a > b THEN a ELSE b
Min(a, b) == IF a < b THEN a ELSE b

\* The elements of a set of integers, ascending.
RECURSIVE SortedSeq(_)
SortedSeq(S) ==
    IF S = {} THEN <<>>
    ELSE LET lo == CHOOSE x \in S : \A y \in S : x <= y
         IN <<lo>> \o SortedSeq(S \ {lo})

\* --------------------------------------------------------------- fragmenter
\* str.isspace() on the model's alphabet
IsSpace(c) == c \in {SPACE, TAB, NL}

\* monospace_measure: 1.0 per character
monospace_measure(s) == [k \in 1..Len(s) |-> 1]

\* word_splitter: the spans of the matches of \S+, in order
WordStarts(t) ==
    {p \in 0..(Len(t) - 1) : ~IsSpace(At(t, p)) /\ (p = 0 \/ IsSpace(At(t, p - 1)))}
WordEnd(t, s) ==
    CHOOSE e \in (s + 1)..Len(t) :
        /\ \A q \in s..(e - 1) : ~IsSpace(At(t, q))
        /\ (e = Len(t) \/ IsSpace(At(t, e)))
word_splitter(t) ==
    LET ss == SortedSeq(WordStarts(t))
    IN [k \in 1..Len(ss) |-> <<ss[k], WordEnd(t, ss[k])>>]

\* The positions inside words at which a hyphenating splitter may cut.
CutPoints(t) ==
    {p \in 1..(Len(t) - 1) : ~IsSpace(At(t, p)) /\ ~IsSpace(At(t, p - 1))}

\* A hyphenating splitter (tests' dummy_splitter): the words, cut at `cuts`.
hyphen_splitter(t, cuts) ==
    LET bounds == SortedSeq(WordStarts(t) \cup (cuts \cap CutPoints(t)))
        EndOf(s) == LET we == WordEnd(t, CHOOSE w \in WordStarts(t) :
                                        w <= s /\ s < WordEnd(t, w))
                        later == {c \in cuts \cap CutPoints(t) : c > s /\ c < we}
                    IN IF later = {} THEN we
                       ELSE CHOOSE c \in later : \A d \in later : c <= d
    IN [k \in 1..Len(bounds) |-> <<bounds[k], EndOf(bounds[k])>>]

\* _re_nt.finditer: the positions of the newlines and tabs, ascending
NtPos(t) == SortedSeq({p \in 0..(Len(t) - 1) : At(t, p) \in {NL, TAB}})

\* np.searchsorted(spans[0], p): how many span starts are below p
SearchSorted(spans, p) == Cardinality({k \in 1..Len(spans) : spans[k][1] < p})

\* np.insert(spans, idx, new, axis=1): new[k] goes before the old spans[idx[k]]
RECURSIVE InsertSpans(_, _, _, _)
InsertSpans(spans, idx, new, q) ==
    LET here == SelectSeq(Range0(0, Len(new)), LAMBDA k : At(idx, k) = q)
        ins == [k \in 1..Len(here) |-> At(new, here[k])]
    IN IF q >= Len(spans) THEN ins
       ELSE ins \o <<At(spans, q)>> \o InsertSpans(spans, idx, new, q + 1)

\* Mutant: the fragment before a newline keeps its own whitespace width.
ForcedWhitespace_Unforced(w, isTab, beforeNl) == IF isTab THEN 0 ELSE w

\* The conditions for forced linebreaks and tabs: a tab fragment has no
\* whitespace after it and no hyphen, the fragment before a newline gets the
\* forcing whitespace and the forced-break mark (written last, so it wins)
ForcedWhitespace(w, isTab, beforeNl) ==
    IF beforeNl THEN FORCED_WHITESPACE ELSE IF isTab THEN 0 ELSE w
ForcedPenalty(p, isTab, beforeNl) ==
    IF beforeNl THEN -1 ELSE IF isTab THEN 0 ELSE p

\* cwidths[1:] = widths.cumsum(): a cumsum of one element is broadcast over
\* the n entries, a cumsum of n elements is copied
Broadcast(cum, len) ==
    IF Len(cum) = len THEN cum ELSE [k \in 1..len |-> IF k = 1 THEN 0 ELSE cum[2]]

\* TextFragmenter.__call__ after validation: the TextFragments arrays.
Fragments(t, spans0, tabw, measured) ==
    LET n == Len(t)
        nt_pos == NtPos(t)
        IsTabAt(p) == At(t, p) = TAB
        nt_idx0 == [k \in 1..Len(nt_pos) |-> SearchSorted(spans0, nt_pos[k])]
        chw == [p1 \in 1..Len(measured) |->
                  IF p1 <= n /\ t[p1] = TAB THEN tabw
                  ELSE IF p1 <= n /\ t[p1] = NL THEN 0 ELSE measured[p1]]
        spans == InsertSpans(spans0, nt_idx0,
                             [k \in 1..Len(nt_pos) |-> <<nt_pos[k], nt_pos[k] + 1>>], 0)
        nt_fragment_idx == [k \in 1..Len(nt_pos) |-> nt_idx0[k] + k - 1]
        m == Len(spans)
        start == [k \in 1..m |-> spans[k][1]]
        end == [k \in 1..m |-> spans[k][2]]
        cwidths == Broadcast(PadCumSum(chw), n + 1)
        whitespace == [p1 \in 1..n |->
              (IF \E k \in 0..(m - 2) : At(end, k) = p1 - 1 THEN 1 ELSE 0)
            - (IF \E k \in 1..(m - 1) : At(start, k) = p1 - 1 THEN 1 ELSE 0)]
        whitespace_mask == CumSum(whitespace)
        fragment_widths == [k \in 1..m |-> At(cwidths, end[k]) - At(cwidths, start[k])]
        ww0 == [k \in 1..m |->
                  IF k = m THEN 0 ELSE At(cwidths, start[k + 1]) - At(cwidths, end[k])]
        pw0 == [k \in 1..m |->
                  IF k = m THEN -1 ELSE 1 * (1 - At(whitespace_mask, end[k]))]
        TabFrag(k0) == \E q \in 1..Len(nt_pos) :
                          IsTabAt(nt_pos[q]) /\ nt_fragment_idx[q] = k0
        BeforeNl(k0) == \E q \in 1..Len(nt_pos) :
                          ~IsTabAt(nt_pos[q]) /\ nt_fragment_idx[q] - 1 = k0
        whitespace_widths == [k \in 1..m |->
                  ForcedWhitespace(ww0[k], TabFrag(k - 1), BeforeNl(k - 1))]
        penalty_widths == [k \in 1..m |->
                  ForcedPenalty(pw0[k], TabFrag(k - 1), BeforeNl(k - 1))]
    IN [starts |-> start, ends |-> end, widths |-> fragment_widths,
        whitespace_widths |-> whitespace_widths, penalty_widths |-> penalty_widths,
        ch_widths |-> chw, ch_ws_mask |-> whitespace_mask]

\* Mutant: a text that ends in a tab passes the validation.
TextError_TrailingTab(t) ==
    IF Len(t) = 0 THEN "empty"
    ELSE IF (IsSpace(t[1]) /\ t[1] # TAB) \/ (IsSpace(t[Len(t)]) /\ t[Len(t)] # TAB)
    THEN "whitespace"
    ELSE "none"

\* The validation at the head of TextFragmenter.__call__: which ValueError, if any.
TextError(t) ==
    IF Len(t) = 0 THEN "empty"
    ELSE IF (IsSpace(t[1]) /\ t[1] # TAB) \/ IsSpace(t[Len(t)]) THEN "whitespace"
    ELSE "none"

\* The exceptions of TextFragmenter.__call__
EmptyTextError == "ValueError: Text cannot be empty"
BadWhitespaceError == "ValueError: Input text cannot start or end with whitespace."
FirstSpanError == "ValueError: First span must start at the first character."
LastSpanError == "ValueError: Last span must end at the last character."
BroadcastError == "ValueError: could not broadcast input array"
IndexError == "IndexError"
\* The ValueError of TextColumn.modify_text
LengthError == "ValueError: Text and widths must have the same length. Something went wrong"
NoError == ""

\* The spans after the newline and tab fragments have been inserted
AllSpans(t, spans0) ==
    InsertSpans(spans0, [k \in 1..Len(NtPos(t)) |-> SearchSorted(spans0, NtPos(t)[k])],
                [k \in 1..Len(NtPos(t)) |-> <<NtPos(t)[k], NtPos(t)[k] + 1>>], 0)

\* What TextFragmenter.__call__ raises after the validation, in the order of
\* the code: spans[0] of no spans and widths[nt_pos] beyond the measured
\* vector (IndexError), the two span checks, cwidths[1:] = widths.cumsum()
\* for a vector of neither n nor 1 elements, whitespace[end[:m - 1]] and
\* whitespace[start[1:]] beyond the text (IndexError)
SpanError(t, all, len) ==
    IF all[1][1] # 0 THEN FirstSpanError
    ELSE IF all[Len(all)][2] # Len(t) THEN LastSpanError
    ELSE IF len # Len(t) /\ len # 1 THEN BroadcastError
    ELSE IF \/ \E k \in 1..(Len(all) - 1) : BadIndex(Len(t), all[k][2])
            \/ \E k \in 2..Len(all) : BadIndex(Len(t), all[k][1])
    THEN IndexError
    ELSE NoError
FragmentError(t, spans0, meas) ==
    IF TextError(t) = "empty" THEN EmptyTextError
    ELSE IF TextError(t) = "whitespace" THEN BadWhitespaceError
    ELSE IF spans0 = <<>> \/ \E k \in 1..Len(NtPos(t)) : NtPos(t)[k] >= Len(meas)
    THEN IndexError
    ELSE SpanError(t, AllSpans(t, spans0), Len(meas))

VARIABLES
    pc,             \* where the pipeline stands: start, fragments, wrap, column, error
    error,          \* the exception raised, "" while there is none
    text,           \* the input string
    cuts,           \* the positions at which the splitter cuts inside words
    spans,          \* what splitter(text) returns: the list of (start, end) spans
    measured,       \* what measure(text) returns: the vector of character widths
    tab_width,      \* TextFragmenter.tab_width
    fragments,      \* the TextFragments arrays
    column_width,   \* TextColumn.column_width, in output units
    fontsize,       \* TextColumn.fontsize
    max_lines_per_column, \* MultiColumn.max_lines_per_column, <<>> for a TextColumn
    _values,        \* OnlineConcaveMinima._values
    _indices,       \* OnlineConcaveMinima._indices (None is -1)
    _finished,      \* OnlineConcaveMinima._finished
    _base,          \* OnlineConcaveMinima._base
    _tentative,     \* OnlineConcaveMinima._tentative
    _matrix,        \* OnlineConcaveMinima._matrix, the Matrix it was given
    line_numbers,   \* LineNumbers.line_numbers, the memo list
    calls,          \* the Matrix(i, j) calls of the latest _advance
    fragment_breaks, \* the break plan [f_0, ..., f_L] returned by wrap()
    line_starts,    \* TextColumn.line_starts
    line_ends,      \* TextColumn.line_ends
    hyphen_mask,    \* TextColumn.hyphen_mask
    forced_mask,    \* TextColumn.forced_mask
    lines,          \* the latest result of to_list(), <<>> before the first call
    boxes,          \* the latest result of _to_bounding_boxes(), NoBoxes before
    columns         \* the latest result of MultiColumn.to_bounding_boxes()

inputs == <<text, cuts, spans, measured, tab_width, column_width, fontsize,
            max_lines_per_column>>
ocm == <<_values, _indices, _finished, _base, _tentative, _matrix, line_numbers,
         calls>>
column == <<fragment_breaks, line_starts, line_ends, hyphen_mask, forced_mask>>
vars == <<pc, error, inputs, fragments, ocm, column, lines, boxes, columns>>

\* max_lines_per_column of an object that is a TextColumn, not a MultiColumn
NotMulti == <<>>

NoFragments == [starts |-> <<>>, ends |-> <<>>, widths |-> <<>>,
                whitespace_widths |-> <<>>, penalty_widths |-> <<>>,
                ch_widths |-> <<>>, ch_ws_mask |-> <<>>]
None == -1

\* len(fragments)
NumFragments == Len(fragments.widths)

\* -------------------------------------------------------------------- breaker
\* TextColumn.wrap: width = self.column_width / self.fontsize, the targets in ems
TargetsEm == [k \in 1..Len(column_width) |-> column_width[k] \div fontsize]

\* wrap(): widths[b] - widths[a], the running total of width + whitespace_width
\* over the fragments a..b-1
RECURSIVE OffsetDiff(_, _)
OffsetDiff(a, b) ==
    IF a >= b THEN 0
    ELSE At(fragments.widths, a) + At(fragments.whitespace_widths, a) + OffsetDiff(a + 1, b)

\* W(i, j): the width of a line holding fragments [i, j)
LineWidth(i, j) ==
    OffsetDiff(i, j - 1)
        + At(fragments.widths, j - 1) + Max(At(fragments.penalty_widths, j - 1), 0)

\* Mutant: every position past the first is on line 1.
LineNumber_Second(i) == IF i = 0 THEN 0 ELSE 1
\* LineNumbers.get(i, cost): 1 + the line number of cost.index(i), 0 at 0
RECURSIVE LineNumber(_)
LineNumber(i) == IF i = 0 THEN 0 ELSE 1 + LineNumber(At(_indices, i))

\* target = T[min(l, L - 1)]
TargetOfLine(l) == At(TargetsEm, Min(l, Len(TargetsEm) - 1))

\* penalty(): what one line [i, j) adds to cost.value(i)
LineCost(i, j, target) ==
    LET w == LineWidth(i, j)
        c0 == NLINE_PENALTY
        c1 == IF w > target THEN c0 + (w - target) * OVERFLOW_PENALTY
              ELSE IF j < NumFragments THEN c0 + (target - w) * (target - w)
              ELSE IF i + 1 = j /\ w * SHORT_LAST_LINE_FRACTION < target
                   THEN c0 + SHORT_LAST_LINE_PENALTY
              ELSE c0
    IN IF At(fragments.penalty_widths, j - 1) > 0 THEN c1 + HYPHEN_PENALTY ELSE c1

\* A line that ends in a forced break is free: it costs the line alone.  The
\* reset is applied to the lines that fit their target.  Applied to overflowing
\* lines as well it would make the single line [0, m) the cheapest plan of
\* every text (the last fragment is a forced break), and no text would wrap.
ForcedBreakFree(i, j, target) ==
    At(fragments.penalty_widths, j - 1) < 0 /\ LineWidth(i, j) <= target

\* penalty(i, j), the Matrix of the concave-minima search
penalty(i, j) ==
    IF j > NumFragments THEN -i
    ELSE LET target == TargetOfLine(LineNumber(i))
         IN At(_values, i) + (IF ForcedBreakFree(i, j, target) THEN NLINE_PENALTY
                              ELSE LineCost(i, j, target))

\* A Matrix handed to OnlineConcaveMinima: wrap() hands it penalty; any other
\* is the table w of its entries, column j holding the rows 0..j-1, to which
\* an online matrix adds value(i).  Past the last column an entry is -i.
NoMatrix == [penalty |-> FALSE, online |-> FALSE, w |-> <<>>]
PenaltyMatrix == [penalty |-> TRUE, online |-> TRUE, w |-> <<>>]
Entry(i, j) ==
    IF j > Len(_matrix.w) THEN -i
    ELSE _matrix.w[j][i + 1] + (IF _matrix.online THEN At(_values, i) ELSE 0)

\* self._matrix(i, j)
Matrix(i, j) == IF _matrix.penalty THEN penalty(i, j) ELSE Entry(i, j)

\* The last column asked of the search: wrap() asks cost.index(len(fragments));
\* of a search on its own, value(j) is asked for a j past the table
LastColumn == IF _matrix.penalty THEN NumFragments ELSE Len(_matrix.w) + MaxBeyond

\* Mutant: of two pairs of one value the later row is taken.
MinPair_LaterRow(p, q) ==
    IF q[1] < p[1] \/ (q[1] = p[1] /\ q[2] > p[2]) THEN q ELSE p
\* min() of two (value, row) tuples
MinPair(p, q) ==
    IF q[1] < p[1] \/ (q[1] = p[1] /\ q[2] < p[2]) THEN q ELSE p

\* Mutant: the stack is popped when its top row is the smaller one.
RECURSIVE PopStack_Smaller(_, _, _, _)
PopStack_Smaller(stack, r, cols, cl) ==
    IF Len(stack) >= 1
    THEN LET col == cols[Len(stack)]
             top == stack[Len(stack)]
             cl2 == cl \cup {<<top, col>>, <<r, col>>}
         IN IF Matrix(top, col) < Matrix(r, col)
            THEN PopStack_Smaller(SubSeq(stack, 1, Len(stack) - 1), r, cols, cl2)
            ELSE [stack |-> stack, calls |-> cl2]
    ELSE [stack |-> stack, calls |-> cl]

\* Mutant: the row after r is the one that is read against the top of the stack.
RECURSIVE PopStack_NextRow(_, _, _, _)
PopStack_NextRow(stack, r, cols, cl) ==
    IF Len(stack) >= 1
    THEN LET col == cols[Len(stack)]
             top == stack[Len(stack)]
             cl2 == cl \cup {<<top, col>>, <<r + 1, col>>}
         IN IF Matrix(top, col) > Matrix(r, col)
            THEN PopStack_NextRow(SubSeq(stack, 1, Len(stack) - 1), r, cols, cl2)
            ELSE [stack |-> stack, calls |-> cl2]
    ELSE [stack |-> stack, calls |-> cl]

\* ConcaveMinima, reduce phase: the while loop popping the stack for row r
RECURSIVE PopStack(_, _, _, _)
PopStack(stack, r, cols, cl) ==
    IF Len(stack) >= 1
    THEN LET col == cols[Len(stack)]
             top == stack[Len(stack)]
             cl2 == cl \cup {<<top, col>>, <<r, col>>}
         IN IF Matrix(top, col) > Matrix(r, col)
            THEN PopStack(SubSeq(stack, 1, Len(stack) - 1), r, cols, cl2)
            ELSE [stack |-> stack, calls |-> cl2]
    ELSE [stack |-> stack, calls |-> cl]

\* ConcaveMinima, reduce phase: the for loop over RowIndices
RECURSIVE ReduceRows(_, _, _, _, _)
ReduceRows(rows, cols, k, stack, cl) ==
    IF k > Len(rows) THEN [stack |-> stack, calls |-> cl]
    ELSE LET popped == PopStack(stack, rows[k], cols, cl)
             st == IF Len(popped.stack) # Len(cols)
                   THEN Append(popped.stack, rows[k]) ELSE popped.stack
         IN ReduceRows(rows, cols, k + 1, st, popped.calls)

\* ConcaveMinima, fill phase: the while loop walking row up to lastrow.
\* Running off RowIndices is Python's IndexError: ok becomes FALSE.
RECURSIVE ScanRows(_, _, _, _, _, _)
ScanRows(r, pair, col, lastrow, rows, cl) ==
    IF At(rows, r) = lastrow THEN [r |-> r, pair |-> pair, calls |-> cl, ok |-> TRUE]
    ELSE IF r + 1 >= Len(rows) THEN [r |-> r, pair |-> pair, calls |-> cl, ok |-> FALSE]
    ELSE LET row == At(rows, r + 1)
         IN ScanRows(r + 1, MinPair(pair, <<Matrix(row, col), row>>), col, lastrow,
                     rows, cl \cup {<<row, col>>})

\* ConcaveMinima, fill phase: the for loop over the even columns
RECURSIVE FillEven(_, _, _, _, _, _)
FillEven(c, r, rows, cols, minima, cl) ==
    IF c >= Len(cols) THEN [minima |-> minima, calls |-> cl, ok |-> TRUE]
    ELSE LET col == At(cols, c)
             row == At(rows, r)
             lastrow == IF c = Len(cols) - 1 THEN rows[Len(rows)]
                        ELSE minima[At(cols, c + 1)][2]
             scan == ScanRows(r, <<Matrix(row, col), row>>, col, lastrow, rows,
                              cl \cup {<<row, col>>})
         IN IF ~scan.ok THEN [minima |-> minima, calls |-> scan.calls, ok |-> FALSE]
            ELSE FillEven(c + 2, scan.r, rows, cols,
                          (col :> scan.pair) @@ minima, scan.calls)

\* ConcaveMinima(RowIndices, ColIndices, Matrix): column -> (value, rowindex)
RECURSIVE ConcaveMinima(_, _)
ConcaveMinima(RowIndices, ColIndices) ==
    IF ColIndices = <<>> THEN [minima |-> <<>>, calls |-> {}, ok |-> TRUE]
    ELSE LET red == ReduceRows(RowIndices, ColIndices, 1, <<>>, {})
             odd == [k \in 1..(Len(ColIndices) \div 2) |-> ColIndices[2 * k]]
             sub == ConcaveMinima(red.stack, odd)
         IN IF ~sub.ok THEN [minima |-> sub.minima, calls |-> red.calls \cup sub.calls,
                             ok |-> FALSE]
            ELSE FillEven(0, 0, red.stack, ColIndices, sub.minima,
                          red.calls \cup sub.calls)

\* Mutant: the minima are stored with their column in place of their row.
RECURSIVE StoreMinima_OwnColumn(_, _, _, _, _)
StoreMinima_OwnColumn(cols, k, minima, vals, idxs) ==
    IF k > Len(cols) THEN <<vals, idxs>>
    ELSE LET col == cols[k]
         IN IF col >= Len(vals)
            THEN StoreMinima_OwnColumn(cols, k + 1, minima,
                                       Append(vals, minima[col][1]), Append(idxs, col))
            ELSE IF minima[col][1] < At(vals, col)
            THEN StoreMinima_OwnColumn(cols, k + 1, minima,
                                       [vals EXCEPT ![col + 1] = minima[col][1]],
                                       [idxs EXCEPT ![col + 1] = col])
            ELSE StoreMinima_OwnColumn(cols, k + 1, minima, vals, idxs)

\* Mutant: a smaller minimum replaces the stored value and leaves its index.
RECURSIVE StoreMinima_StaleIndex(_, _, _, _, _)
StoreMinima_StaleIndex(cols, k, minima, vals, idxs) ==
    IF k > Len(cols) THEN <<vals, idxs>>
    ELSE LET col == cols[k]
         IN IF col >= Len(vals)
            THEN StoreMinima_StaleIndex(cols, k + 1, minima,
                                        Append(vals, minima[col][1]),
                                        Append(idxs, minima[col][2]))
            ELSE IF minima[col][1] < At(vals, col)
            THEN StoreMinima_StaleIndex(cols, k + 1, minima,
                                        [vals EXCEPT ![col + 1] = minima[col][1]], idxs)
            ELSE StoreMinima_StaleIndex(cols, k + 1, minima, vals, idxs)

\* _advance, first case: the loop storing the minima of the new columns
RECURSIVE StoreMinima(_, _, _, _, _)
StoreMinima(cols, k, minima, vals, idxs) ==
    IF k > Len(cols) THEN <<vals, idxs>>
    ELSE LET col == cols[k]
         IN IF col >= Len(vals)
            THEN StoreMinima(cols, k + 1, minima,
                             Append(vals, minima[col][1]), Append(idxs, minima[col][2]))
            ELSE IF minima[col][1] < At(vals, col)
            THEN StoreMinima(cols, k + 1, minima,
                             [vals EXCEPT ![col + 1] = minima[col][1]],
                             [idxs EXCEPT ![col + 1] = minima[col][2]])
            ELSE StoreMinima(cols, k + 1, minima, vals, idxs)

\* The memo list after the LineNumbers.get(i, cost) calls of penalty(i, j), j <= m
MemoAfter(cl) ==
    IF ~_matrix.penalty THEN line_numbers ELSE
    LET asked == {c[1] : c \in {d \in cl : d[2] <= NumFragments}}
        top == IF asked = {} THEN 0 ELSE CHOOSE x \in asked : \A y \in asked : y <= x
        n == Max(Len(line_numbers), top + 1)
    IN [k \in 1..n |-> LineNumber(k - 1)]

\* ------------------------------------------------------------ TextColumn.wrap
\* a[i] of Python: a negative index counts from the end
PyAt(s, i) == IF i < 0 THEN s[Len(s) + i + 1] ELSE s[i + 1]

\* wrap(): the loop `while pos: pos = cost.index(pos)`, collecting the breaks.
\* `fuel` bounds the number of iterations; <<>> stands for a loop that has
\* not reached 0 within m + 1 iterations.
RECURSIVE Backtrack(_, _)
Backtrack(pos, fuel) ==
    IF pos = 0 THEN <<0>>
    ELSE IF fuel = 0 \/ pos < 0 \/ pos >= Len(_indices) THEN <<>>
    ELSE LET rest == Backtrack(At(_indices, pos), fuel - 1)
         IN IF rest = <<>> THEN <<>> ELSE Append(rest, pos)

\* Mutant: every line but the first starts one character late.
LineStarts_SkipAlways(fb) ==
    [k \in 1..(Len(fb) - 1) |->
        PyAt(fragments.starts, fb[k]) + (IF k > 1 THEN 1 ELSE 0)]

\* TextColumn.wrap: the per-line arrays derived from the break plan fb
HyphenMask(fb) ==
    [k \in 1..(Len(fb) - 1) |-> PyAt(fragments.penalty_widths, fb[k + 1] - 1) > 0]
ForcedMask(fb) ==
    [k \in 1..(Len(fb) - 1) |-> PyAt(fragments.penalty_widths, fb[k + 1] - 1) < 0]
LineStarts(fb) ==
    [k \in 1..(Len(fb) - 1) |->
        PyAt(fragments.starts, fb[k])
            + (IF k > 1 /\ ForcedMask(fb)[k - 1] THEN 1 ELSE 0)]
LineEnds(fb) ==
    [k \in 1..(Len(fb) - 1) |-> PyAt(fragments.ends, fb[k + 1] - 1)]

\* ----------------------------------------------------------------- to_list
\* text[a:b]
Slice(t, a, b) == SubSeq(t, Min(a, Len(t)) + 1, Min(b, Len(t)))

\* str.replace('\t', ' ' * int(tab_width))
RECURSIVE ExpandTabs(_, _)
ExpandTabs(s, w) ==
    IF s = <<>> THEN <<>>
    ELSE (IF Head(s) = TAB THEN [k \in 1..w |-> SPACE] ELSE <<Head(s)>>)
             \o ExpandTabs(Tail(s), w)

to_list ==
    [k \in 1..Len(line_starts) |->
        ExpandTabs(Slice(text, line_starts[k], line_ends[k]), tab_width)
            \o (IF hyphen_mask[k] THEN <<HYPHEN>> ELSE <<>>)]

\* ------------------------------------------------------------------ floats
\* A float is the fraction n/d in lowest terms with d > 0; d = 0 holds the
\* IEEE values: nan is 0/0, +inf is 1/0, -inf is -1/0.
Abs(a) == IF a < 0 THEN -a ELSE a
Sign(a) == IF a < 0 THEN -1 ELSE IF a > 0 THEN 1 ELSE 0
RECURSIVE GCD(_, _)
GCD(a, b) == IF b = 0 THEN a ELSE GCD(b, a % b)
NaN == [n |-> 0, d |-> 0]
Float(k) == [n |-> k, d |-> 1]
Frac(n, d) ==
    IF d = 0 THEN [n |-> Sign(n), d |-> 0]
    ELSE LET g == GCD(Abs(n), Abs(d))
         IN [n |-> Sign(d) * Sign(n) * (Abs(n) \div g), d |-> Abs(d) \div g]
IsNaN(a) == a.d = 0 /\ a.n = 0
IsInf(a) == a.d = 0 /\ a.n # 0
IsFinite(a) == a.d # 0
FAdd(a, b) ==
    IF IsNaN(a) \/ IsNaN(b) THEN NaN
    ELSE IF IsInf(a) THEN (IF IsInf(b) /\ b.n # a.n THEN NaN ELSE a)
    ELSE IF IsInf(b) THEN b
    ELSE Frac(a.n * b.d + b.n * a.d, a.d * b.d)
FNeg(a) == [n |-> -a.n, d |-> a.d]
FSub(a, b) == FAdd(a, FNeg(b))
FMul(a, b) ==
    IF IsNaN(a) \/ IsNaN(b) THEN NaN
    ELSE IF IsInf(a) \/ IsInf(b) THEN Frac(Sign(a.n) * Sign(b.n), 0)
    ELSE Frac(a.n * b.n, a.d * b.d)
FDiv(a, b) ==
    IF IsNaN(a) \/ IsNaN(b) THEN NaN
    ELSE IF IsInf(a) THEN (IF IsInf(b) THEN NaN ELSE Frac(a.n * (IF b.n < 0 THEN -1 ELSE 1), 0))
    ELSE IF IsInf(b) THEN Float(0)
    ELSE Frac(a.n * b.d, a.d * b.n)

\* np.cumsum over floats
RECURSIVE FCumSumFrom(_, _)
FCumSumFrom(s, acc) ==
    IF s = <<>> THEN <<>>
    ELSE LET v == FAdd(acc, Head(s)) IN <<v>> \o FCumSumFrom(Tail(s), v)
FCumSum(s) == FCumSumFrom(s, Float(0))
\* np.pad(s, (1, 0)).cumsum()
FPadCumSum(s) == <<Float(0)>> \o FCumSum(s)
\* -------------------------------------------------------------- modify_text
\* np.insert(arr, idx, val): val goes before the old arr[idx[k]], for every k
RECURSIVE NpInsertFrom(_, _, _, _)
NpInsertFrom(arr, idx, val, q) ==
    LET c == Cardinality({k \in 1..Len(idx) :
                 (IF idx[k] < 0 THEN idx[k] + Len(arr) ELSE idx[k]) = q})
        ins == [k \in 1..c |-> val]
    IN IF q >= Len(arr) THEN ins
       ELSE ins \o <<At(arr, q)>> \o NpInsertFrom(arr, idx, val, q + 1)
NpInsert(arr, idx, val) == NpInsertFrom(arr, idx, val, 0)
\* np.insert raises IndexError
BadInsert(arr, idx) == \E k \in 1..Len(idx) : idx[k] > Len(arr) \/ idx[k] < -Len(arr)

NumLines == Len(line_starts)

\* mask[line_ends[:-1]] += 1; mask[line_starts[1:]] -= 1  (an index that
\* occurs twice is updated once)
TrimMask ==
    [p1 \in 1..Len(text) |->
        (IF \E k \in 1..(NumLines - 1) : line_ends[k] = p1 - 1 THEN 1 ELSE 0)
      - (IF \E k \in 2..NumLines : line_starts[k] = p1 - 1 THEN 1 ELSE 0)]
BadTrim ==
    \/ \E k \in 1..(NumLines - 1) : BadIndex(Len(text), line_ends[k])
    \/ \E k \in 2..NumLines : BadIndex(Len(text), line_starts[k])

\* modified = (np.arange(n) + 2)[(1 - mask.cumsum()).astype(bool)]
Trimmed ==
    LET cum == CumSum(TrimMask)
        kept == SelectSeq(Range0(0, Len(text)), LAMBDA p : 1 - At(cum, p) # 0)
    IN [k \in 1..Len(kept) |-> kept[k] + 2]

\* linebreaks = line_ends - cumsum(pad(line_starts[1:] - line_ends[:-1], (1, 0)))
Linebreaks0 ==
    [k \in 1..NumLines |->
        line_ends[k] - SumSeq([j \in 1..(k - 1) |-> line_starts[j + 1] - line_ends[j]])]
AllButLast(s) == SubSeq(s, 1, Len(s) - 1)
WithNewlines == NpInsert(Trimmed, AllButLast(Linebreaks0), 0)
\* linebreaks[:-1] += np.arange(len(linebreaks) - 1) + 1
Linebreaks1 ==
    [k \in 1..NumLines |-> Linebreaks0[k] + (IF k < NumLines THEN k ELSE 0)]
\* hyphbreaks = linebreaks[hyphen_mask] - 1
Hyphbreaks ==
    LET ks == SelectSeq([k \in 1..NumLines |-> k], LAMBDA k : hyphen_mask[k])
    IN [q \in 1..Len(ks) |-> Linebreaks1[ks[q]] - 1]
WithHyphens == NpInsert(WithNewlines, Hyphbreaks, 1)
\* linebreaks + np.cumsum(hyphen_mask)
Linebreaks2 ==
    [k \in 1..NumLines |->
        Linebreaks1[k] + Cardinality({j \in 1..k : hyphen_mask[j]})]
BadModify ==
    \/ BadTrim
    \/ BadInsert(Trimmed, AllButLast(Linebreaks0))
    \/ BadInsert(WithNewlines, Hyphbreaks)

\* text[modified] and widths[modified] over the text with the two sentinels
\* '\n' (width 0) and '-' (width hyphen_width) in front
hyphen_width == monospace_measure(<<HYPHEN>>)[1]
Reconstruct(modified, linebreaks) ==
    [text |-> [k \in 1..Len(modified) |->
                    IF modified[k] = 0 THEN NL
                    ELSE IF modified[k] = 1 THEN HYPHEN
                    ELSE At(text, modified[k] - 2)],
     widths |-> [k \in 1..Len(modified) |->
                    IF modified[k] = 0 THEN 0
                    ELSE IF modified[k] = 1 THEN hyphen_width
                    ELSE At(fragments.ch_widths, modified[k] - 2)],
     modified |-> modified,
     linebreaks |-> linebreaks,
     \* np.pad(column_width, pad, mode="edge")[:len(line_starts)]
     targets_vector |-> [k \in 1..NumLines |->
                    column_width[Min(k, Len(column_width))]]]
modify_text == Reconstruct(WithHyphens, Linebreaks2)

\* ------------------------------------------------------------------ calc_y
\* y in line steps: y[i] is the number of lines above character i, each step
\* standing for -line_gap * line_spacing (the font's descender offset and the
\* constant dy are left out)
calc_y(linebreaks, widths) ==
    LET at == {linebreaks[k] : k \in 1..(Len(linebreaks) - 1)}
        norm == {IF b < 0 THEN b + Len(widths) ELSE b : b \in at}
    IN CumSum([p1 \in 1..Len(widths) |-> IF (p1 - 1) \in norm THEN 1 ELSE 0])
BadCalcY(linebreaks, widths) ==
    \E k \in 1..(Len(linebreaks) - 1) : BadIndex(Len(widths), linebreaks[k])

\* ----------------------------------------------------------------- justify
\* np.diff(a[linebreaks], prepend=0)
DiffAt(a, linebreaks) ==
    [k \in 1..Len(linebreaks) |->
        FSub(PyAt(a, linebreaks[k]),
             IF k = 1 THEN Float(0) ELSE PyAt(a, linebreaks[k - 1]))]

\* factors = remainders / whitewidths, then inf -> 0.0, then forced -> 0.0
Factors(target_width, x, ws, linebreaks) ==
    LET linewidths == DiffAt(x, linebreaks)
        whitewidths == DiffAt(ws, linebreaks)
        quot == [k \in 1..Len(linebreaks) |->
                    FDiv(FSub(target_width[k], linewidths[k]), whitewidths[k])]
        noinf == [k \in 1..Len(linebreaks) |->
                    IF IsInf(quot[k]) THEN Float(0) ELSE quot[k]]
    IN [k \in 1..Len(linebreaks) |-> IF forced_mask[k] THEN Float(0) ELSE noinf[k]]

\* offsets[0] = factors[0]; offsets[linebreaks[:-1]] = np.diff(factors)
\* (of two assignments to one index the later wins)
Offsets(factors, linebreaks, len) ==
    [p1 \in 1..len |->
        LET ks == {k \in 1..(Len(linebreaks) - 1) :
                      (IF linebreaks[k] < 0 THEN linebreaks[k] + len
                       ELSE linebreaks[k]) = p1 - 1}
        IN IF ks # {}
           THEN LET k == CHOOSE a \in ks : \A b \in ks : b <= a
                IN FSub(factors[k + 1], factors[k])
           ELSE IF p1 = 1 THEN factors[1] ELSE Float(0)]

\* offsets = offsets.cumsum() * dx_ws; dx = dx + offsets
Stretch(dx, dx_ws, factors, linebreaks) ==
    LET steps == FCumSum(Offsets(factors, linebreaks, Len(dx_ws)))
    IN [k \in 1..Len(dx) |-> FAdd(dx[k], FMul(steps[k], dx_ws[k]))]
\* x = np.pad(dx, (1, 0)).cumsum(); return dx, x (with the factors)
Stretched(dx, factors) == [dx |-> dx, x |-> FPadCumSum(dx), factors |-> factors]
Justify(dx, dx_ws, factors, linebreaks) ==
    Stretched(Stretch(dx, dx_ws, factors, linebreaks), factors)
justify(target_width, dx, x, dx_ws, ws, linebreaks) ==
    Justify(dx, dx_ws, Factors(target_width, x, ws, linebreaks), linebreaks)
BadJustify(linebreaks, len) ==
    \/ \E k \in 1..Len(linebreaks) : BadIndex(len + 1, linebreaks[k])
    \/ len = 0
    \/ \E k \in 1..(Len(linebreaks) - 1) : BadIndex(len, linebreaks[k])

\* ------------------------------------------------------------------ calc_x
\* resets[linebreaks_] = np.diff(x[linebreaks_], prepend=0); x -= resets.cumsum()
Resets(x, linebreaks_) ==
    LET d == DiffAt(x, linebreaks_)
    IN [p1 \in 1..Len(x) |->
        LET ks == {k \in 1..Len(linebreaks_) :
                      (IF linebreaks_[k] < 0 THEN linebreaks_[k] + Len(x)
                       ELSE linebreaks_[k]) = p1 - 1}
        IN IF ks # {} THEN d[CHOOSE a \in ks : \A b \in ks : b <= a] ELSE Float(0)]

\* the x of every character counted from the start of its line
ResetLines(j, linebreaks_) ==
    LET resets == FCumSum(Resets(j.x, linebreaks_))
    IN [dx |-> j.dx, x |-> [k \in 1..Len(j.x) |-> FSub(j.x[k], resets[k])],
        factors |-> j.factors]
\* if justify: dx_ws, ws and the call of justify
Justification(just, dx, x, linebreaks, modified, targets_vector) ==
    IF just
    THEN LET dx_ws == [k \in 1..Len(dx) |->
                    FMul(dx[k], Float(PyAt(fragments.ch_ws_mask, modified[k] - 2)))]
             target_width == [k \in 1..Len(targets_vector) |->
                                Frac(targets_vector[k], fontsize)]
         IN justify(target_width, dx, x, dx_ws, FPadCumSum(dx_ws), linebreaks)
    ELSE [dx |-> dx, x |-> x, factors |-> <<>>]
Positions(just, dx, linebreaks, modified, targets_vector) ==
    ResetLines(Justification(just, dx, FPadCumSum(dx), linebreaks, modified,
                             targets_vector),
               AllButLast(linebreaks))
calc_x(just, linebreaks, modified, targets_vector, widths) ==
    Positions(just, [k \in 1..Len(widths) |-> Float(widths[k])], linebreaks,
              modified, targets_vector)
BadCalcX(just, linebreaks, modified, len) ==
    \/ \E k \in 1..Len(modified) : BadIndex(Len(text), modified[k] - 2)
    \/ just /\ BadJustify(linebreaks, len)
    \/ \E k \in 1..(Len(linebreaks) - 1) : BadIndex(len + 1, linebreaks[k])

\* _to_bounding_boxes: (text, x[:-1] * fontsize, dx * fontsize, y * fontsize)
\* with the linebreaks, and the factors of justify
NoBoxes == [justify |-> FALSE, text |-> <<>>, x |-> <<>>, dx |-> <<>>, y |-> <<>>,
            linebreaks |-> <<>>, factors |-> <<>>]
Scaled(just, mt, cx, y) ==
    [justify |-> just,
     text |-> mt.text,
     x |-> [k \in 1..Len(cx.dx) |-> FMul(cx.x[k], Float(fontsize))],
     dx |-> [k \in 1..Len(cx.dx) |-> FMul(cx.dx[k], Float(fontsize))],
     y |-> [k \in 1..Len(y) |-> y[k] * fontsize],
     linebreaks |-> mt.linebreaks,
     factors |-> cx.factors]
_to_bounding_boxes(just, mt) ==
    Scaled(just, mt,
           calc_x(just, mt.linebreaks, mt.modified, mt.targets_vector, mt.widths),
           calc_y(mt.linebreaks, mt.widths))
to_bounding_boxes(just) == _to_bounding_boxes(just, modify_text)
\* calc_y or calc_x raises IndexError
BadPositions(just, linebreaks, modified) ==
    \/ BadCalcY(linebreaks, modified)
    \/ BadCalcX(just, linebreaks, modified, Len(modified))
BadBoxes(just) == BadModify \/ BadPositions(just, Linebreaks2, WithHyphens)

\* ------------------------------------------------------------- MultiColumn
PySet(s, i, v) == [s EXCEPT ![IF i < 0 THEN Len(s) + i + 1 ELSE i + 1] = v]

\* np.pad(np.diff(linebreaks) == 1, (0, 1))
double_linebreak(linebreaks) ==
    [k \in 1..Len(linebreaks) |->
        k < Len(linebreaks) /\ linebreaks[k + 1] - linebreaks[k] = 1]

\* while double_linebreak[i - k]: drop_mask[i - k] = True; k += 1
RECURSIVE DropBefore(_, _, _, _)
DropBefore(dl, i, k, drop) ==
    IF BadIndex(Len(dl), i - k) THEN [status |-> IndexError, drop |-> drop]
    ELSE IF PyAt(dl, i - k) THEN DropBefore(dl, i, k + 1, PySet(drop, i - k, TRUE))
    ELSE [status |-> NoError, drop |-> drop]

RECURSIVE DropFrom_KeepsGap(_, _, _)
DropFrom_KeepsGap(dl, i, drop) ==
    IF BadIndex(Len(dl), i) THEN [status |-> IndexError, i |-> i, drop |-> drop]
    ELSE IF PyAt(dl, i) THEN DropFrom_KeepsGap(dl, i + 1, drop)
    ELSE [status |-> NoError, i |-> i, drop |-> drop]
\* while double_linebreak[i]: drop_mask[i] = True; i += 1
RECURSIVE DropFrom(_, _, _)
DropFrom(dl, i, drop) ==
    IF BadIndex(Len(dl), i) THEN [status |-> IndexError, i |-> i, drop |-> drop]
    ELSE IF PyAt(dl, i) THEN DropFrom(dl, i + 1, PySet(drop, i, TRUE))
    ELSE [status |-> NoError, i |-> i, drop |-> drop]

\* The while loop of column_splitting from the state (i, j, split_mask,
\* drop_mask).  An iteration that adds max_lines = 0 to i with j at or past the
\* end of the schedule leaves i and both masks as they were, and so does every
\* iteration after it: the loop never ends.
Diverged == "diverged"
RECURSIVE SplitLoop(_, _, _, _, _, _)
SplitHere(dl, sched, j, split, f, max_lines) ==
    IF f.status # NoError
    THEN [status |-> f.status, split_mask |-> split, drop_mask |-> f.drop]
    ELSE IF max_lines = 0 /\ j >= Len(sched) - 1
    THEN [status |-> Diverged, split_mask |-> PySet(split, f.i, TRUE),
          drop_mask |-> f.drop]
    ELSE SplitLoop(dl, sched, f.i + max_lines, j + 1, PySet(split, f.i, TRUE), f.drop)
SplitAfter(dl, sched, i, j, split, b) ==
    IF b.status # NoError
    THEN [status |-> b.status, split_mask |-> split, drop_mask |-> b.drop]
    ELSE SplitHere(dl, sched, j, split, DropFrom(dl, i, b.drop),
                   At(sched, Min(j, Len(sched) - 1)))
SplitLoop(dl, sched, i, j, split, drop) ==
    IF i < Len(dl) - 1
    THEN SplitAfter(dl, sched, i, j, split, DropBefore(dl, i, 1, drop))
    ELSE [status |-> NoError, split_mask |-> split, drop_mask |-> drop]

\* MultiColumn.column_splitting(linebreaks) with the schedule sched
column_splitting(linebreaks, sched) ==
    SplitLoop(double_linebreak(linebreaks), sched, sched[1] - 1, 0,
              [k \in 1..Len(linebreaks) |-> FALSE],
              [k \in 1..Len(linebreaks) |-> FALSE])

\* cid = zeros(len(text)); cid[linebreaks[split_mask]] = 1; cid.cumsum()
ColumnIds(len, linebreaks, split_mask) ==
    CumSum([p \in 1..len |->
               IF \E k \in 1..Len(linebreaks) : split_mask[k] /\ linebreaks[k] = p - 1
               THEN 1 ELSE 0])
\* drop_mask = ones(len(text)); drop_mask[linebreaks[_drop_mask]] = False
KeepMask(len, linebreaks, _drop_mask) ==
    [p \in 1..len |->
        ~\E k \in 1..Len(linebreaks) : _drop_mask[k] /\ linebreaks[k] = p - 1]
\* v[drop_mask]
RECURSIVE Kept(_, _)
Kept(v, keep) ==
    IF v = <<>> THEN <<>>
    ELSE IF keep[1] THEN <<v[1]>> \o Kept(Tail(v), Tail(keep))
    ELSE Kept(Tail(v), Tail(keep))

NoColumns == [justify |-> FALSE, text |-> <<>>, x |-> <<>>, dx |-> <<>>, y |-> <<>>,
              cid |-> <<>>, split_mask |-> <<>>, drop_mask |-> <<>>, keep |-> <<>>]
\* The result of MultiColumn.to_bounding_boxes from the arrays b of
\* _to_bounding_boxes and the masks sp of column_splitting
Assigned(b, sp, keep, cid) ==
    [justify |-> b.justify,
     text |-> Kept(b.text, keep),
     x |-> Kept(b.x, keep),
     dx |-> Kept(b.dx, keep),
     y |-> Kept(b.y, keep),
     cid |-> Kept(cid, keep),
     split_mask |-> sp.split_mask,
     drop_mask |-> sp.drop_mask,
     keep |-> keep]
Columns(b, sp) ==
    Assigned(b, sp, KeepMask(Len(b.text), b.linebreaks, sp.drop_mask),
             ColumnIds(Len(b.text), b.linebreaks, sp.split_mask))
\* what stops MultiColumn.to_bounding_boxes: the loop of column_splitting, an
\* IndexError of it, or a masked linebreak that is no position of the text
MaskError(len, linebreaks, sp) ==
    IF sp.status # NoError THEN sp.status
    ELSE IF \E k \in 1..Len(linebreaks) :
                (sp.split_mask[k] \/ sp.drop_mask[k]) /\ BadIndex(len, linebreaks[k])
    THEN IndexError
    ELSE NoError
\* ------------------------------------------------------------------ inputs
Strings(S, lo, hi) == UNION {[1..n -> S] : n \in lo..hi}
Texts == Strings(Alphabet, 0, MaxLen)
Schedules == Strings(1..MaxTarget, 1, MaxSched)
HasTab(t) == \E p \in 1..Len(t) : t[p] = TAB

RECURSIVE Join(_, _)
Join(ss, sep) ==
    IF ss = <<>> THEN <<>>
    ELSE IF Len(ss) = 1 THEN ss[1]
    ELSE Head(ss) \o sep \o Join(Tail(ss), sep)
Letters(k) == [i \in 1..k |-> LETTER]

\* Tabbed texts: up to MaxItems words, each led by a tab
TabItems == {<<TAB>> \o Letters(k) : k \in 1..MaxWord}
TabTexts == {Join(ss, <<>>) : ss \in Strings(TabItems, 1, MaxItems)}
TabSchedules == Strings(1..MaxTabTarget, MaxSched, MaxSched)

\* Paragraphed texts: up to MaxParagraphs paragraphs joined by two newlines,
\* each one word of 1 or MaxBody letters, or a tab and a letter
Bodies == {Letters(1), Letters(MaxBody), <<TAB, LETTER>>}
ParagraphTexts == {Join(ss, <<NL, NL>>) : ss \in Strings(Bodies, 1, MaxParagraphs)}
GapSchedules == Strings({1, MaxBody}, 1, MaxGapSched)

\* Spaced texts: up to MaxWords words joined by single spaces
Words == {Letters(k) : k \in 1..MaxWord}
WordTexts == {Join(ss, <<SPACE>>) : ss \in Strings(Words, 1, MaxWords)}
WordSchedules == Strings(1..MaxTarget, 1, MaxWordSched)

\* Nothing has been called yet
Unstarted ==
    /\ pc = "start"
    /\ error = NoError
    /\ fragments = NoFragments
    /\ _values = <<>>
    /\ _indices = <<>>
    /\ _finished = 0
    /\ _base = 0
    /\ _tentative = 0
    /\ _matrix = NoMatrix
    /\ line_numbers = <<>>
    /\ calls = {}
    /\ fragment_breaks = <<>>
    /\ line_starts = <<>>
    /\ line_ends = <<>>
    /\ hyphen_mask = <<>>
    /\ forced_mask = <<>>
    /\ lines = <<>>
    /\ boxes = NoBoxes
    /\ columns = NoColumns

\* TextColumn(fragments, column_width, fontsize) for a schedule out of SS
ColumnOn(SS) ==
    /\ fontsize \in Fontsizes
    /\ column_width \in
           {[k \in 1..Len(ems) |-> ems[k] * fontsize] :
               ems \in IF TextError(text) = "none" THEN SS ELSE {<<1>>}}

\* The state after construction: a TextFragmenter(measure=monospace_measure,
\* splitter, tab_width), a text to fragment and the arguments of the TextColumn
\* that is built from the fragments.  The splitter cuts the words at `cuts`;
\* column_width is a schedule of whole ems times the fontsize; a text that the
\* fragmenter rejects never reaches a TextColumn and gets one schedule only.
\* With hyph false the splitter is the default word_splitter.
InitOn(TS, SS, hyph) ==
    /\ text \in TS
    /\ cuts \in (IF hyph THEN SUBSET CutPoints(text) ELSE {{}})
    /\ spans = hyphen_splitter(text, cuts)
    /\ measured = monospace_measure(text)
    /\ tab_width \in {tw \in TabWidths : tw = DEFAULT_TAB_WIDTH \/ HasTab(text)}
    /\ ColumnOn(SS)
    /\ max_lines_per_column = NotMulti
    /\ Unstarted

\* A TextFragmenter whose splitter returns any list of at most MaxSpans spans
\* 0 <= start < end <= n, on the texts of letters and spaces
SpanTexts == Strings({LETTER, SPACE}, 0, MaxSpanLen)
SpanLists(n) == Strings({<<a, b>> : a \in 0..n, b \in 0..n} \cap
                        {ab \in (0..n) \X (0..n) : ab[1] < ab[2]}, 0, MaxSpans)
OneTarget == Strings(1..MaxTarget, 1, 1)
InitSplitter ==
    /\ text \in SpanTexts
    /\ cuts = {}
    /\ spans \in (IF TextError(text) = "none" THEN SpanLists(Len(text))
                  ELSE {word_splitter(text)})
    /\ measured = monospace_measure(text)
    /\ tab_width = DEFAULT_TAB_WIDTH
    /\ ColumnOn(OneTarget)
    /\ max_lines_per_column = NotMulti
    /\ Unstarted

\* A TextFragmenter whose measure returns a vector of any length up to
\* MaxExtra elements beyond the characters, with the default word_splitter
InitMeasure ==
    /\ text \in Texts
    /\ cuts = {}
    /\ spans = word_splitter(text)
    /\ measured \in (IF TextError(text) = "none"
                     THEN {[k \in 1..len |-> 1] : len \in 0..(Len(text) + MaxExtra)}
                     ELSE {monospace_measure(text)})
    /\ tab_width \in {tw \in TabWidths : tw = DEFAULT_TAB_WIDTH \/ HasTab(text)}
    /\ ColumnOn(OneTarget)
    /\ max_lines_per_column = NotMulti
    /\ Unstarted

\* A MultiColumn(fragments, column_width, max_lines_per_column, fontsize), or
\* a TextColumn(fragments, column_width, fontsize), on words separated by a space or by a paragraph gap of one or two empty lines,
\* with one target width, the narrowest or the widest, and a schedule of
\* non-negative line counts
Separators == {<<SPACE>>, <<NL, NL>>, <<NL, NL, NL>>}
ColumnTargets == {<<1>>, <<MaxTarget>>}
RECURSIVE Weave(_, _)
Weave(ws, seps) ==
    IF Len(ws) = 1 THEN ws[1]
    ELSE Head(ws) \o Head(seps) \o Weave(Tail(ws), Tail(seps))
ColumnTexts ==
    {t \in {Weave(ws, seps) : ws \in Strings(Words, 1, MaxColumnWords),
                              seps \in [1..(MaxColumnWords - 1) -> Separators]} :
        Len(t) <= MaxColumnLen}
ColumnSchedules == Strings(0..MaxColumnLines, 1, MaxColumnSched)
InitColumns ==
    /\ text \in ColumnTexts
    /\ cuts = {}
    /\ spans = word_splitter(text)
    /\ measured = monospace_measure(text)
    /\ tab_width = DEFAULT_TAB_WIDTH
    /\ ColumnOn(ColumnTargets)
    /\ max_lines_per_column \in ColumnSchedules \cup {NotMulti}
    /\ Unstarted

\* The tables of entries of the matrices with the columns 1..n
RECURSIVE Tables(_)
Tables(n) ==
    IF n = 0 THEN {<<>>}
    ELSE {Append(w, c) : w \in Tables(n - 1), c \in [1..n -> 0..MaxEntry]}
Matrices ==
    {[penalty |-> FALSE, online |-> o, w |-> w] :
        o \in BOOLEAN, w \in Tables(MaxColumn)}

\* The state after OnlineConcaveMinima(Matrix, 0) for a Matrix of the family,
\* outside any TextColumn
InitMinima ==
    /\ text = <<>> /\ cuts = {} /\ spans = <<>> /\ measured = <<>>
    /\ tab_width = DEFAULT_TAB_WIDTH
    /\ column_width = <<>> /\ fontsize = 1
    /\ max_lines_per_column = NotMulti
    /\ pc = "search"
    /\ error = NoError
    /\ fragments = NoFragments
    /\ _values = <<0>>
    /\ _indices = <<None>>
    /\ _finished = 0
    /\ _base = 0
    /\ _tentative = 0
    /\ _matrix \in Matrices
    /\ line_numbers = <<>>
    /\ calls = {}
    /\ fragment_breaks = <<>>
    /\ line_starts = <<>>
    /\ line_ends = <<>>
    /\ hyphen_mask = <<>>
    /\ forced_mask = <<>>
    /\ lines = <<>>
    /\ boxes = NoBoxes
    /\ columns = NoColumns

Init == InitOn(Texts, Schedules, TRUE)
InitTabs == InitOn(TabTexts, TabSchedules, TRUE)
InitParagraphs == InitOn(ParagraphTexts, GapSchedules, FALSE)
InitWords == InitOn(WordTexts, WordSchedules, FALSE)

\* ----------------------------------------------------------------- actions
\* TextFragmenter.__call__(text)
Fragment ==
    /\ pc = "start"
    /\ IF FragmentError(text, spans, measured) # NoError
       THEN /\ pc' = "error"
            /\ error' = FragmentError(text, spans, measured)
            /\ UNCHANGED fragments
       ELSE /\ fragments' = Fragments(text, spans, tab_width, measured)
            /\ pc' = "fragments"
            /\ UNCHANGED error
    /\ UNCHANGED <<inputs, ocm, column, lines, boxes, columns>>

\* TextColumn.__init__ up to the call of wrap(): OnlineConcaveMinima(penalty, 0)
\* and LineNumbers() are constructed
Construct ==
    /\ pc = "fragments"
    /\ _values' = <<0>>
    /\ _indices' = <<None>>
    /\ _finished' = 0
    /\ _base' = 0
    /\ _tentative' = 0
    /\ _matrix' = PenaltyMatrix
    /\ line_numbers' = <<0>>
    /\ calls' = {}
    /\ pc' = "wrap"
    /\ UNCHANGED <<error, inputs, fragments, column, lines, boxes, columns>>

\* OnlineConcaveMinima._advance, called by cost.index(len(fragments))
Advance ==
    /\ pc \in {"wrap", "search"}
    /\ _finished < LastColumn
    /\ LET i == _finished + 1 IN
       IF i > _tentative
       THEN LET rows == Range0(_base, _finished + 1)
                tent == _finished + Len(rows)
                cols == Range0(_finished + 1, tent + 1)
                cm == ConcaveMinima(rows, cols)
            IN IF ~cm.ok
               THEN /\ pc' = "error"
                    /\ error' = IndexError
                    /\ calls' = cm.calls
                    /\ UNCHANGED <<_values, _indices, _finished, _base, _tentative,
                                   line_numbers>>
               ELSE LET st == StoreMinima(cols, 1, cm.minima, _values, _indices)
                    IN /\ _tentative' = tent
                       /\ _values' = st[1]
                       /\ _indices' = st[2]
                       /\ _finished' = i
                       /\ calls' = cm.calls
                       /\ line_numbers' = MemoAfter(cm.calls)
                       /\ UNCHANGED <<_base, pc, error>>
       ELSE LET diag == Matrix(i - 1, i)
                prev_row == Matrix(i - 1, _tentative)
                tentative_value == At(_values, _tentative)
            IN IF diag < At(_values, i)
               THEN /\ _values' = [_values EXCEPT ![i + 1] = diag]
                    /\ _indices' = [_indices EXCEPT ![i + 1] = i - 1]
                    /\ _base' = i - 1
                    /\ _tentative' = i
                    /\ _finished' = i
                    /\ calls' = {<<i - 1, i>>}
                    /\ line_numbers' = MemoAfter({<<i - 1, i>>})
                    /\ UNCHANGED <<pc, error>>
               ELSE IF prev_row >= tentative_value
               THEN /\ _finished' = i
                    /\ calls' = {<<i - 1, i>>, <<i - 1, _tentative>>}
                    /\ line_numbers' = MemoAfter({<<i - 1, i>>, <<i - 1, _tentative>>})
                    /\ UNCHANGED <<_values, _indices, _base, _tentative, pc, error>>
               ELSE /\ _base' = i - 1
                    /\ _tentative' = i
                    /\ _finished' = i
                    /\ calls' = {<<i - 1, i>>, <<i - 1, _tentative>>}
                    /\ line_numbers' = MemoAfter({<<i - 1, i>>, <<i - 1, _tentative>>})
                    /\ UNCHANGED <<_values, _indices, pc, error>>
    /\ UNCHANGED <<inputs, fragments, _matrix, column, lines, boxes, columns>>

\* wrap() after cost.index(len(fragments)) has advanced the search: the
\* backtracking loop, then the rest of TextColumn.wrap and TextColumn.__init__
FinishWrap ==
    /\ pc = "wrap"
    /\ _finished >= NumFragments
    /\ LET fb == Backtrack(NumFragments, NumFragments + 1)
       IN IF fb = <<>>
          THEN /\ pc' = "diverged"
               /\ UNCHANGED column
          ELSE /\ fragment_breaks' = fb
               /\ hyphen_mask' = HyphenMask(fb)
               /\ forced_mask' = ForcedMask(fb)
               /\ line_starts' = LineStarts(fb)
               /\ line_ends' = LineEnds(fb)
               /\ pc' = "column"
    /\ UNCHANGED <<error, inputs, fragments, ocm, lines, boxes, columns>>

ToList_Consuming ==
    /\ pc = "column"
    /\ lines' = to_list
    /\ line_ends' = line_starts
    /\ UNCHANGED <<pc, error, inputs, fragments, ocm, fragment_breaks, line_starts,
                   hyphen_mask, forced_mask, boxes, columns>>
\* TextColumn.to_list()
ToList ==
    /\ pc = "column"
    /\ lines' = to_list
    /\ UNCHANGED <<pc, error, inputs, fragments, ocm, column, boxes, columns>>

\* MultiColumn.to_bounding_boxes on the arrays b of super()._to_bounding_boxes
\* and the masks sp of column_splitting: column_splitting may have looped
\* forever or raised, a masked linebreak may be no position of the text,
\* otherwise the columns are returned
Assign(b, sp) ==
    IF MaskError(Len(b.text), b.linebreaks, sp) = Diverged
    THEN /\ pc' = "diverged"
         /\ UNCHANGED <<error, boxes, columns>>
    ELSE IF MaskError(Len(b.text), b.linebreaks, sp) # NoError
    THEN /\ pc' = "error"
         /\ error' = MaskError(Len(b.text), b.linebreaks, sp)
         /\ UNCHANGED <<boxes, columns>>
    ELSE /\ boxes' = b
         /\ columns' = Columns(b, sp)
         /\ UNCHANGED <<pc, error>>

\* to_bounding_boxes(justify) of the TextColumn, or of the MultiColumn when
\* max_lines_per_column is given
ToBoundingBoxes ==
    /\ pc = "column"
    /\ \E just \in BOOLEAN :
        IF Len(text) # Len(fragments.ch_widths)
        THEN /\ pc' = "error"
             /\ error' = LengthError
             /\ UNCHANGED <<boxes, columns>>
        ELSE IF BadBoxes(just)
        THEN /\ pc' = "error"
             /\ error' = IndexError
             /\ UNCHANGED <<boxes, columns>>
        ELSE \E b \in {to_bounding_boxes(just)} :
               IF max_lines_per_column = NotMulti
               THEN /\ boxes' = b
                    /\ UNCHANGED <<pc, error, columns>>
               ELSE \E sp \in {column_splitting(b.linebreaks, max_lines_per_column)} :
                        Assign(b, sp)
    /\ UNCHANGED <<inputs, fragments, ocm, column, lines>>

Next == Fragment \/ Construct \/ Advance \/ FinishWrap \/ ToList \/ ToBoundingBoxes

Spec == Init /\ [][Next]_vars
SpecTabs == InitTabs /\ [][Next]_vars
SpecParagraphs == InitParagraphs /\ [][Next]_vars
SpecWords == InitWords /\ [][Next]_vars
SpecSplitter == InitSplitter /\ [][Next]_vars
SpecMeasure == InitMeasure /\ [][Next]_vars
SpecColumns == InitColumns /\ [][Next]_vars
\* The search on its own: value(MaxColumn + MaxBeyond) is asked of it
SpecMinima == InitMinima /\ [][Advance]_vars

\* ------------------------------------------------------------------ claims
Wrapped == fragment_breaks # <<>>
NumPlanLines == Len(fragment_breaks) - 1
Boxed == boxes.text # <<>>
Justified == Boxed /\ boxes.justify

\* The cost of line number l covering the fragments [i, j)
PlanLineCost(i, j, l) ==
    LET target == TargetOfLine(l)
    IN IF ForcedBreakFree(i, j, target) THEN NLINE_PENALTY ELSE LineCost(i, j, target)
\* The total cost of a break plan p = <<0, ..., m>>
PlanCost(p) == SumSeq([k \in 1..(Len(p) - 1) |-> PlanLineCost(p[k], p[k + 1], k - 1)])

\* The characters of line k in the augmented text are LineFrom(k)..LineTo(k)-1
\* (0-based, the newline left out); LineWhitespace is the width of its
\* inter-fragment whitespace, in ems
LineFrom(k) == IF k = 1 THEN 0 ELSE boxes.linebreaks[k - 1]
LineTo(k) == IF k < NumLines THEN boxes.linebreaks[k] - 1 ELSE Len(boxes.text)
LineWhitespace(k) ==
    SumSeq([q \in 1..(LineTo(k) - LineFrom(k)) |->
        LET i == LineFrom(k) + q - 1
        IN At(modify_text.widths, i)
               * PyAt(fragments.ch_ws_mask, At(modify_text.modified, i) - 2)])

\* C1: every line [f_k, f_k+1) of the break plan has a width W (fragment
\* widths, inter-fragment whitespace and the hyphen of its end) of at most the
\* target of that line, unless the line is one fragment wider than the target.
C1_LinesFitTarget ==
    Wrapped =>
        \A k \in 1..NumPlanLines :
            LET i == fragment_breaks[k]
                j == fragment_breaks[k + 1]
                target == TargetOfLine(k - 1)
            IN \/ LineWidth(i, j) <= target
               \/ j = i + 1 /\ At(fragments.widths, i) > target

C3_PenaltyConcave ==
    pc \in {"wrap", "column"} =>
        \A i \in 0.._finished, i2 \in 0.._finished :
            \A j \in 1..NumFragments, j2 \in 1..NumFragments :
                (i < i2 /\ i2 < j /\ j < j2 /\ penalty(i, j) > penalty(i2, j))
                    => penalty(i, j2) > penalty(i2, j2)

\* C4: the break plan followed back from m is strictly increasing from 0 to m,
\* so its lines are non-empty, disjoint and cover every fragment once; the
\* backtracking loop terminates, index(pos) < pos for every finished pos > 0.
C4_PlanStrictlyIncreasing ==
    /\ pc # "diverged"
    /\ pc \in {"wrap", "column"} =>
        \A pos \in 1.._finished : At(_indices, pos) >= 0 /\ At(_indices, pos) < pos
    /\ Wrapped =>
        /\ fragment_breaks[1] = 0
        /\ fragment_breaks[Len(fragment_breaks)] = NumFragments
        /\ \A k \in 1..NumPlanLines : fragment_breaks[k] < fragment_breaks[k + 1]
\* A text of three fragments or more has been wrapped into two lines or more.
C4_Witness == pc = "column" /\ NumPlanLines >= 2 /\ NumFragments >= 3

NumParagraphs ==
    1 + Cardinality({p \in 1..(Len(text) - 1) : text[p] = NL /\ text[p + 1] = NL})
GapLine(k) ==
    \A f \in fragment_breaks[k]..(fragment_breaks[k + 1] - 1) :
        At(text, At(fragments.starts, f)) = NL
EndsParagraph(k) == line_ends[k] = Len(text) \/ At(text, line_ends[k]) = NL
C6_ParagraphGaps ==
    lines # <<>> =>
        /\ Cardinality({k \in 1..Len(lines) : lines[k] = <<>>}) = NumParagraphs - 1
        /\ \A k \in 1..Len(lines) :
            (GapLine(k) \/ EndsParagraph(k)) => forced_mask[k] /\ ~hyphen_mask[k]
        /\ \A k \in 1..Len(lines) : \A q \in 1..Len(lines[k]) : lines[k][q] # NL

\* C7: the lines of to_list() preserve the text: line k is
\* text[line_starts[k]:line_ends[k]] (tabs expanded) plus the hyphen of a
\* hyphenated line, line_ends[k] <= line_starts[k+1], the lines start at 0 and
\* end at the end of the text, and the characters left out between two lines
\* are spaces and newlines only, so every other character appears once, in order.
NonWhitespace(s) == SelectSeq(s, LAMBDA c : ~IsSpace(c))
Unhyphenated(k) ==
    IF hyphen_mask[k] THEN SubSeq(lines[k], 1, Len(lines[k]) - 1) ELSE lines[k]
C7_LinesPreserveText ==
    lines # <<>> =>
        /\ Len(lines) = NumLines
        /\ line_starts[1] = 0
        /\ line_ends[NumLines] = Len(text)
        /\ \A k \in 1..NumLines :
            /\ line_starts[k] <= line_ends[k]
            /\ hyphen_mask[k] => lines[k][Len(lines[k])] = HYPHEN
            /\ Unhyphenated(k)
                 = ExpandTabs(Slice(text, line_starts[k], line_ends[k]), tab_width)
        /\ \A k \in 1..(NumLines - 1) :
            /\ line_ends[k] <= line_starts[k + 1]
            /\ \A p \in line_ends[k]..(line_starts[k + 1] - 1) :
                   At(text, p) \in {SPACE, NL}
        /\ NonWhitespace(Join([k \in 1..NumLines |-> Unhyphenated(k)], <<>>))
             = NonWhitespace(text)
\* to_list() has returned a hyphenated line and has left a character out between
\* two lines.
C7_Witness ==
    /\ lines # <<>>
    /\ \E k \in 1..NumLines : hyphen_mask[k]
    /\ \E k \in 1..(NumLines - 1) : line_ends[k] < line_starts[k + 1]

\* C8: with justify = true, every line that is not forced and holds
\* inter-fragment whitespace of positive width fills its target: x + dx of
\* its last character is column_width[min(l, len(column_width) - 1)].
C8_JustifiedLinesFill ==
    Justified =>
        \A k \in 1..NumLines :
            (~forced_mask[k] /\ LineWhitespace(k) > 0) =>
                FAdd(At(boxes.x, LineTo(k) - 1), At(boxes.dx, LineTo(k) - 1))
                    = Float(column_width[Min(k, Len(column_width))])

\* C9: with justify = true, a line without inter-fragment whitespace gets the
\* stretch factor 0, whatever the sign of target - line width, and the dx and
\* x of that line and of the lines after it are finite.
C9_ZeroWhitespaceFactor ==
    Justified =>
        \A k \in 1..NumLines :
            LineWhitespace(k) = 0 =>
                /\ boxes.factors[k] = Float(0)
                /\ \A i \in LineFrom(k)..(Len(boxes.text) - 1) :
                       IsFinite(At(boxes.dx, i)) /\ IsFinite(At(boxes.x, i))

\* C10: with justify = true, the dx of every character of a forced line is
\* its unjustified dx.
C10_ForcedLinesUnstretched ==
    Justified =>
        \A k \in 1..NumLines :
            forced_mask[k] =>
                \A i \in LineFrom(k)..(LineTo(k) - 1) :
                    At(boxes.dx, i) = Float(At(modify_text.widths, i) * fontsize)

\* C11: once the fragmenter has been called, the empty text has raised the
\* empty-text error, a text that starts with a space or a newline or ends with
\* any whitespace (tab and newline included) has raised the whitespace error,
\* both without producing fragments; every other text, one that starts with a
\* tab and ends with a letter included, has raised neither.
C11_RejectsInvalidText ==
    pc # "start" =>
        IF text = <<>>
        THEN pc = "error" /\ error = EmptyTextError /\ fragments = NoFragments
        ELSE IF text[1] \in {SPACE, NL} \/ text[Len(text)] \in {SPACE, TAB, NL}
        THEN pc = "error" /\ error = BadWhitespaceError /\ fragments = NoFragments
        ELSE error \notin {EmptyTextError, BadWhitespaceError} /\ fragments # NoFragments
\* a text that starts and ends with a tab has been rejected
C11_Witness ==
    /\ pc = "error" /\ error = BadWhitespaceError
    /\ Len(text) >= 2 /\ text[1] = TAB /\ text[Len(text)] = TAB

\* C12: once the fragmenter has been called on a valid text, a splitter result
\* that overlaps, is out of order, does not start at 0 or does not end at n
\* has raised an error without producing fragments, and the fragments that
\* were returned have strictly increasing starts, ends[k] <= starts[k+1],
\* starts[0] = 0 and ends[m-1] = n.
C12_BadSpansRejected ==
    (pc # "start" /\ TextError(text) = "none") =>
        /\ ( \/ spans = <<>>
             \/ spans[1][1] # 0
             \/ spans[Len(spans)][2] # Len(text)
             \/ \E k \in 1..(Len(spans) - 1) :
                    spans[k][1] >= spans[k + 1][1] \/ spans[k][2] > spans[k + 1][1] )
           => (pc = "error" /\ fragments = NoFragments)
        /\ fragments # NoFragments =>
               /\ fragments.starts[1] = 0
               /\ fragments.ends[Len(fragments.ends)] = Len(text)
               /\ \A k \in 1..(Len(fragments.starts) - 1) :
                      /\ fragments.starts[k] < fragments.starts[k + 1]
                      /\ fragments.ends[k] <= fragments.starts[k + 1]

\* C13: once the fragmenter has been called on a valid text, a measured width
\* vector whose length is not the number of characters (shorter, longer or a
\* single element) has raised an error and no fragments were returned.
C13_LengthMismatchRejected ==
    (pc # "start" /\ TextError(text) = "none" /\ Len(measured) # Len(text)) =>
        (pc = "error" /\ fragments = NoFragments)

\* MultiColumn.to_bounding_boxes has returned a result
HasColumns == columns # NoColumns
\* the column ids of all characters of T', the dropped ones included
AllColumnIds == ColumnIds(Len(boxes.text), boxes.linebreaks, columns.split_mask)
\* line k of T' (1-based) holds its newline only
EmptyLine(k) == k < NumLines /\ LineFrom(k) = LineTo(k)
\* every entry of the max_lines_per_column schedule is at least 1
PositiveLines == \A k \in 1..Len(max_lines_per_column) : max_lines_per_column[k] >= 1

\* C14: once the column has been constructed, a target-width schedule with a
\* non-positive value, or a MultiColumn schedule with a value <= 0, has ended
\* in an error, with no break plan and no column assignment.
C14_InvalidScheduleRejected ==
    ( /\ pc \notin {"start", "fragments", "wrap"}
      /\ \/ \E k \in 1..Len(column_width) : column_width[k] <= 0
         \/ \E k \in 1..Len(max_lines_per_column) : max_lines_per_column[k] <= 0 )
    => (pc = "error" /\ error # NoError /\ fragment_breaks = <<>> /\ columns = NoColumns)

\* C15: with every max_lines_per_column >= 1, the column id changes only
\* after a newline of T': two neighbouring characters of T', and two
\* neighbouring characters of the output, have different column ids only if
\* the first of them is a newline.
C15_SplitsAtNewlines ==
    (HasColumns /\ PositiveLines) =>
        /\ \A p \in 1..(Len(boxes.text) - 1) :
               AllColumnIds[p] # AllColumnIds[p + 1] => boxes.text[p] = NL
        /\ \A p \in 1..(Len(columns.text) - 1) :
               columns.cid[p] # columns.cid[p + 1] => columns.text[p] = NL

C17_ScheduledLines ==
    ( /\ HasColumns /\ PositiveLines
      /\ \A k \in 1..Len(columns.split_mask) : ~double_linebreak(boxes.linebreaks)[k] ) =>
        \A k \in 1..Len(columns.split_mask) :
            columns.split_mask[k] =>
                LET c == Cardinality({h \in 1..(k - 1) : columns.split_mask[h]})
                    prev == IF c = 0 THEN 0
                            ELSE CHOOSE h \in 1..(k - 1) :
                                     /\ columns.split_mask[h]
                                     /\ \A g \in (h + 1)..(k - 1) : ~columns.split_mask[g]
                IN  k - prev = At(max_lines_per_column, Min(c, Len(max_lines_per_column) - 1))

\* C18: with a single max_lines_per_column that is 0 or larger than the
\* number of lines, column_splitting terminates, and the result has no split,
\* no drop, all characters of T' and column id 0 everywhere.
C18_DegenerateSchedule ==
    ( /\ pc \in {"column", "diverged"}
      /\ Len(max_lines_per_column) = 1
      /\ max_lines_per_column[1] = 0 \/ max_lines_per_column[1] > NumLines ) =>
        /\ pc # "diverged"
        /\ HasColumns =>
               /\ \A k \in 1..Len(columns.split_mask) :
                      ~columns.split_mask[k] /\ ~columns.drop_mask[k]
               /\ columns.text = boxes.text
               /\ \A p \in 1..Len(columns.cid) : columns.cid[p] = 0

\* C19: in the output the first character has column id 0, the column id of
\* a character is that of the character before it or one more, and the page
\* id column_id \div columns_per_page never decreases.
C19_MonotoneColumnIds ==
    HasColumns =>
        /\ columns.cid[1] = 0
        /\ \A p \in 1..(Len(columns.cid) - 1) :
               /\ columns.cid[p + 1] - columns.cid[p] \in {0, 1}
               /\ \A columns_per_page \in 1..MaxColumnsPerPage :
                      columns.cid[p] \div columns_per_page
                          <= columns.cid[p + 1] \div columns_per_page

SearchDone == pc \in {"wrap", "search", "column"} /\ _finished >= LastColumn

\* The concavity ConcaveMinima asks of its matrix, on the entries the online
\* search may read (rows before their columns, one column past the last
\* fragment): Matrix(i,j) > Matrix(i',j) => Matrix(i,j') > Matrix(i',j')
\* for every i < i' and j < j'
MatrixConcave ==
    \A i \in 0..LastColumn, i2 \in 0..LastColumn,
       j \in 1..(LastColumn + 1), j2 \in 1..(LastColumn + 1) :
        (i < i2 /\ i2 < j /\ j < j2 /\ Matrix(i, j) > Matrix(i2, j))
            => Matrix(i, j2) > Matrix(i2, j2)

\* min { Matrix(i, j) | 0 <= i < j }
ColumnMin(j) ==
    LET entries == {Matrix(i, j) : i \in 0..(j - 1)}
    IN CHOOSE v \in entries : \A w \in entries : v <= w

\* C21: when the matrix is concave, the finished search has value(0) =
\* initial and, for every column j > 0, value(j) is the minimum of column j
\* over the rows 0..j-1 and is the entry of row index(j), 0 <= index(j) < j.
C21_OnlineMinima ==
    (SearchDone /\ MatrixConcave) =>
        /\ At(_values, 0) = 0
        /\ \A j \in 1..LastColumn :
            /\ At(_values, j) = ColumnMin(j)
            /\ At(_indices, j) \in 0..(j - 1)
            /\ At(_values, j) = Matrix(At(_indices, j), j)
\* A concave online matrix of MaxColumn columns has been searched, the base
\* has moved, and some column has its minimum strictly inside its rows
C21_Witness ==
    /\ pc = "search" /\ SearchDone /\ MatrixConcave
    /\ _matrix.online /\ _base > 0
    /\ \E j \in 1..LastColumn : At(_indices, j) \in 1..(j - 2)
\* C22: every Matrix(i, j) call that an _advance makes, itself or through
\* ConcaveMinima, has i <= _finished as it stood when the _advance began and
\* i < j: value(i), index(i) and the line number of i, which penalty reads,
\* are stored already (columns 0..i of _values and _indices, with every
\* index below its column), and no nested _advance is needed.
C22_RowsFinished ==
    [][ \A c \in calls' :
            /\ c[1] <= _finished /\ c[1] < c[2]
            /\ c[1] < Len(_values) /\ c[1] < Len(_indices)
            /\ \A k \in 1..c[1] : At(_indices, k) \in 0..(k - 1) ]_vars
\* An _advance of the search on an online matrix has called ConcaveMinima on
\* four rows, the last finished row among them
C22_Witness ==
    /\ pc = "search" /\ _matrix.online
    /\ Cardinality({c[1] : c \in calls}) >= 4
    /\ \E c \in calls : c[1] = _finished - 1
\* The smallest row i < j with Matrix(i, j) = min { Matrix(i, j) | i < j }
EarliestRow(j) ==
    CHOOSE i \in 0..(j - 1) :
        /\ Matrix(i, j) = ColumnMin(j)
        /\ \A k \in 0..(i - 1) : Matrix(k, j) # ColumnMin(j)
\* The next _advance is of the first case, and the rows and columns it hands
\* to ConcaveMinima
NewTentative == pc \in {"wrap", "search"} /\ _finished < LastColumn /\ _finished + 1 > _tentative
NewRows == Range0(_base, _finished + 1)
NewCols == Range0(_finished + 1, _finished + Len(NewRows) + 1)
\* The concavity of the submatrix on the rows R and columns C
SubmatrixConcave(R, C) ==
    \A a \in 1..Len(R), b \in 1..Len(R), c \in 1..Len(C), d \in 1..Len(C) :
        (a < b /\ c < d /\ Matrix(R[a], C[c]) > Matrix(R[b], C[c]))
            => Matrix(R[a], C[d]) > Matrix(R[b], C[d])
\* The pair (value, rowindex) of column col over the rows R: the minimum of
\* the column and the first of the rows that attain it
EarliestPair(R, col) ==
    LET a == CHOOSE a \in 1..Len(R) :
                /\ \A b \in 1..Len(R) : Matrix(R[a], col) <= Matrix(R[b], col)
                /\ \A b \in 1..(a - 1) : Matrix(R[b], col) # Matrix(R[a], col)
    IN <<Matrix(R[a], col), R[a]>>
\* What ConcaveMinima returns on the rows R and columns C is the earliest
\* minimum of every column
EarliestMinima(R, C, cm) ==
    cm.ok /\ \A c \in 1..Len(C) : cm.minima[C[c]] = EarliestPair(R, C[c])

\* C23: when the matrix is concave, index(j) of the finished search is the
\* smallest row i < j with Matrix(i, j) = value(j), for every column j > 0,
\* and the minima ConcaveMinima returned to the latest _advance name, for
\* each of its columns, the smallest of its rows that attain the minimum.
C23_EarlierRow ==
    /\ (SearchDone /\ MatrixConcave) =>
           \A j \in 1..LastColumn : At(_indices, j) = EarliestRow(j)
    /\ (NewTentative /\ SubmatrixConcave(NewRows, NewCols)) =>
           EarliestMinima(NewRows, NewCols, ConcaveMinima(NewRows, NewCols))
\* A concave matrix has been searched and in some column two rows or more
\* attain the minimum, the first of them neither row 0 nor the last row
C23_Witness ==
    /\ pc = "search" /\ SearchDone /\ MatrixConcave
    /\ \E j \in 1..LastColumn :
           /\ At(_indices, j) \in 1..(j - 2)
           /\ \E i \in (At(_indices, j) + 1)..(j - 1) : Matrix(i, j) = At(_values, j)

\* The invariant of the stored columns of an OnlineConcaveMinima
Stored ==
    /\ 0 <= _base /\ _base <= _finished /\ _finished <= _tentative
    /\ _tentative < Len(_values) /\ Len(_values) = Len(_indices)
    /\ \A c \in 1..(Len(_values) - 1) :
           /\ At(_indices, c) \in 0..(c - 1)
           /\ At(_values, c) = Matrix(At(_indices, c), c)

\* C30: as long as an OnlineConcaveMinima exists, 0 <= _base <= _finished <=
\* _tentative < len(_values) = len(_indices) and _values[c] =
\* Matrix(_indices[c], c) for every stored column c >= 1, before and after
\* every step; and every _advance that returns raises _finished by exactly 1.
C30_StoredColumns ==
    [][ /\ _values # <<>> => Stored
        /\ _values' # <<>> => Stored'
        /\ (pc \in {"wrap", "search"} /\ pc' = pc) => _finished' = _finished + 1 ]_vars
\* The base has moved and a tentative column past _finished holds a row
\* beyond the base
C30_Witness ==
    /\ pc = "search" /\ _base > 0 /\ _finished < _tentative
    /\ \E c \in (_finished + 1)..(Len(_values) - 1) : At(_indices, c) > _base

\* The number of lines of the plan followed back from position i
RECURSIVE LinesBack(_, _)
LinesBack(i, fuel) ==
    IF i = 0 THEN 0
    ELSE IF fuel = 0 \/ At(_indices, i) \notin 0..(i - 1) THEN None
    ELSE LET rest == LinesBack(At(_indices, i), fuel - 1)
         IN IF rest = None THEN None ELSE 1 + rest
\* The memo of LineNumbers holds, for the positions 0..len-1 in order, the
\* number of lines of the plan followed back from each
Memoized(memo, idxs, finished) ==
    /\ Len(memo) <= finished + 1
    /\ \A i \in 0..(Len(memo) - 1) :
           IF i = 0 THEN At(memo, i) = 0
           ELSE /\ At(idxs, i) \in 0..(i - 1)
                /\ At(memo, i) = 1 + At(memo, At(idxs, i))

Fragmented == pc \in {"fragments", "wrap", "column"}
TabsAt == {p \in 0..(Len(text) - 1) : At(text, p) = TAB}
\* The fragment that is the tab at position p alone, None if there is none
TabFragment(p) ==
    LET ks == {k \in 0..(NumFragments - 1) :
                  At(fragments.starts, k) = p /\ At(fragments.ends, k) = p + 1}
    IN IF ks = {} THEN None ELSE CHOOSE k \in ks : TRUE
\* to_list() shows the tab at position p as int(tab_width) spaces
TabRendered(p) ==
    \E k \in 1..Len(lines) :
        /\ line_starts[k] <= p /\ p < line_ends[k]
        /\ LET off == Len(ExpandTabs(Slice(text, line_starts[k], p), tab_width))
           IN /\ Len(lines[k]) >= off + tab_width
              /\ \A q \in 1..tab_width : lines[k][off + q] = SPACE

\* C24: every tab of the text, at position p, is a fragment of its own with
\* the span (p, p + 1), width tab_width, whitespace_width 0 and penalty_width
\* 0, wherever it stands, and to_list() shows it as int(tab_width) spaces.
C24_TabFragments ==
    Fragmented =>
        \A p \in TabsAt :
            /\ TabFragment(p) # None
            /\ At(fragments.widths, TabFragment(p)) = tab_width
            /\ At(fragments.whitespace_widths, TabFragment(p)) = 0
            /\ At(fragments.penalty_widths, TabFragment(p)) = 0
            /\ lines # <<>> => TabRendered(p)

\* Fragment k is one that the fragmenter inserted for a tab or a newline
Inserted(k) ==
    /\ At(fragments.ends, k) = At(fragments.starts, k) + 1
    /\ At(text, At(fragments.starts, k)) \in {TAB, NL}

\* C26: a fragment has a positive penalty_width only when the next fragment
\* starts where it ends and neither of the two is an inserted tab or newline
\* fragment; and no line of the column ends in a drawn hyphen where the text
\* goes on with a tab, a newline or a space.
C26_HyphenInsideWords ==
    /\ Fragmented =>
           \A k \in 0..(NumFragments - 1) :
               At(fragments.penalty_widths, k) > 0 =>
                   /\ k + 1 < NumFragments
                   /\ At(fragments.ends, k) = At(fragments.starts, k + 1)
                   /\ ~Inserted(k) /\ ~Inserted(k + 1)
    /\ pc = "column" =>
           \A k \in 1..Len(hyphen_mask) :
               hyphen_mask[k] =>
                   /\ line_ends[k] < Len(text)
                   /\ At(text, line_ends[k]) \notin {TAB, NL, SPACE}
                   /\ At(text, line_ends[k] - 1) \notin {TAB, NL}

\* '\n'.join(ls)
RECURSIVE JoinLines(_)
JoinLines(ls) ==
    IF ls = <<>> THEN <<>>
    ELSE IF Len(ls) = 1 THEN ls[1]
    ELSE ls[1] \o <<NL>> \o JoinLines(Tail(ls))
\* The lines of the plan: each slice of the text, with the hyphen of its end
PlanLines ==
    [k \in 1..NumLines |->
        Slice(text, line_starts[k], line_ends[k])
            \o (IF hyphen_mask[k] THEN <<HYPHEN>> ELSE <<>>)]
\* The positions of T' that hold the character c
PositionsOf(t, c) == {q \in 1..Len(t) : t[q] = c}
\* modify_text() returns on the wrapped column: it raises neither the
\* ValueError of its length check nor an IndexError
Modifiable ==
    pc = "column" /\ Len(text) = Len(fragments.ch_widths) /\ ~BadModify

\* C28: the text T' that modify_text builds is the lines
\* text[line_starts[k]:line_ends[k]], each with a '-' when hyphen_mask[k],
\* joined by single newlines; T' has L - 1 newlines, each of them inserted,
\* none copied from the source; every inserted hyphen stands directly before
\* an inserted newline; and for a text without tabs T' is the newline-join
\* of to_list().
C28_AugmentedText ==
    Modifiable =>
        /\ modify_text.text = JoinLines(PlanLines)
        /\ Cardinality(PositionsOf(modify_text.text, NL)) = NumLines - 1
        /\ \A q \in PositionsOf(modify_text.text, NL) : WithHyphens[q] = 0
        /\ \A q \in 1..Len(WithHyphens) :
               WithHyphens[q] = 1 => (q < Len(WithHyphens) /\ WithHyphens[q + 1] = 0)
        /\ TabsAt = {} => modify_text.text = JoinLines(to_list)

\* C27: with every max_lines_per_column >= 1, every character of T' that
\* MultiColumn.to_bounding_boxes removes is a newline that ends an empty
\* line (it stands first in T' or directly after a newline); no letter,
\* hyphen or tab and no newline of a line that is not empty is removed.
C27_OnlyGapNewlinesDropped ==
    (HasColumns /\ PositiveLines) =>
        \A p \in 1..Len(boxes.text) :
            ~columns.keep[p] =>
                /\ boxes.text[p] = NL
                /\ p = 1 \/ boxes.text[p - 1] = NL

\* column_splitting on the linebreaks of the wrapped column
Splitting == column_splitting(Linebreaks2, max_lines_per_column)
\* A MultiColumn whose schedule has entries >= 1 only, wrapped, with a T'
Splittable == Modifiable /\ max_lines_per_column # NotMulti /\ PositiveLines

\* C29: for a schedule with every entry >= 1, column_splitting returns (it
\* neither runs forever nor raises IndexError); every index set in
\* split_mask lies in 0..L-2; and no mask is written at a negative index
\* (the backward loop would write index -1, the last entry of drop_mask,
\* before any other negative index) or past the end.
C29_SplittingInRange ==
    Splittable =>
        /\ Splitting.status = NoError
        /\ \A k \in 1..NumLines : Splitting.split_mask[k] => k - 1 <= NumLines - 2
        /\ ~Splitting.drop_mask[NumLines]

=============================================================================
